---------------------------- MODULE Spec2Model ----------------------------
(***************************************************************************)
(* A model of the sharded in-process cache of src/cache.go: the shard     *)
(* table, the entries with their absolute expiration, the statistics      *)
(* counters, the operations Set/Get/Add/Replace/Delete/DeleteExpired/     *)
(* ItemCount/Flush and the janitor.                                        *)
(*                                                                         *)
(* Spec      one caller at a time: every operation runs from its first to  *)
(*           its last line without interference.                           *)
(* SpecConc  several callers and the janitor, interleaved at the           *)
(*           granularity of the lock operations and of the unlocked map    *)
(*           accesses of the code.                                         *)
(* SpecLive  SpecConc with the fairness of the Go scheduler, the ticker    *)
(*           and sync.RWMutex.                                             *)
(***************************************************************************)
EXTENDS Integers, Sequences, FiniteSets, TLC

(***************************************************************************)
(* Bounds of the model.                                                    *)
(***************************************************************************)
\* the clock runs from 1 to MaxTime
MaxTime == 3
\* the largest positive duration a caller passes
MaxDur == 1
\* calls made in a behaviour of Spec
MaxOps == 3
\* calls started in a behaviour of SpecConc
MaxCalls == 3
\* calls started in a behaviour of SpecLive
MaxLiveCalls == 2

\* keys, as the bytes of the Go string: "f" (shard 5) and "a" (shard 6)
Keys == {<<102>>, <<97>>}
\* the stored payloads (opaque to the cache)
Values == {"x", "y"}
\* interface{} nil, returned for a missing or expired item
Nil == "nil"

(***************************************************************************)
(* Program constants.                                                      *)
(***************************************************************************)
NoExpiration == -1
DefaultExpiration == 0
shardCount == 10

(***************************************************************************)
(* calcHash: 64-bit FNV-1a (hash/fnv New64a), computed on four 16-bit      *)
(* limbs, least significant first, so that every product fits an int.      *)
(***************************************************************************)
Limb == 65536
\* 14695981039346656037 = 0xcbf29ce484222325
fnvOffset64 == <<8997, 33826, 40164, 52210>>
\* 1099511628211 = 2^40 + 435
fnvPrimeLow == 435

RECURSIVE xorBits(_, _, _)
xorBits(a, b, n) ==
    IF n = 0 THEN 0
    ELSE (((a % 2) + (b % 2)) % 2) + 2 * xorBits(a \div 2, b \div 2, n - 1)

\* h * (2^40 + 435) mod 2^64
fnvMul(h) ==
    LET p0 == h[1] * fnvPrimeLow
        p1 == h[2] * fnvPrimeLow + (p0 \div Limb)
        p2 == h[3] * fnvPrimeLow + (p1 \div Limb)
        p3 == h[4] * fnvPrimeLow + (p2 \div Limb)
        \* (h << 40): limbs 0 and 1 shifted by 8 bits into limbs 2 and 3
        s2 == (h[1] * 256) % Limb
        s3 == ((h[1] * 256) \div Limb + h[2] * 256) % Limb
        q2 == (p2 % Limb) + s2
        q3 == (p3 % Limb) + s3 + (q2 \div Limb)
    IN  <<p0 % Limb, p1 % Limb, q2 % Limb, q3 % Limb>>

RECURSIVE fnvWrite(_, _)
fnvWrite(h, bytes) ==
    IF bytes = <<>> THEN h
    ELSE fnvWrite(fnvMul(<<xorBits(h[1], Head(bytes), 16), h[2], h[3], h[4]>>),
                  Tail(bytes))

\* the hashes of the model's keys, computed once
hashTable == [str \in Keys |-> fnvWrite(fnvOffset64, str)]

calcHash(str) == hashTable[str]

\* key % shardCount on the limbs
hashMod(h, n) ==
    LET r3 == h[4] % n
        r2 == (r3 * Limb + h[3]) % n
        r1 == (r2 * Limb + h[2]) % n
    IN  (r1 * Limb + h[1]) % n

\* the index of the shard GetShard returns
GetShard(key) == hashMod(key, shardCount)

ShardIds == 0 .. (shardCount - 1)

(***************************************************************************)
(* Items and maps.  A Go map is a function on the set of its keys.         *)
(***************************************************************************)
Item(x, e) == [Object |-> x, Expiration |-> e]

EmptyMap == [key \in {} |-> Item(Nil, 0)]

MapPut(m, key, item) ==
    [q \in (DOMAIN m) \cup {key} |-> IF q = key THEN item ELSE m[q]]

MapDelete(m, key) == [q \in (DOMAIN m) \ {key} |-> m[q]]

newShardMap == [i \in ShardIds |-> EmptyMap]

\* mutant of expired: the test for "never expires" is left out
expiredNoZeroCheck(item, t) == t > item.Expiration

\* mutant of expired: an item counts as expired at its expiration instant already
expiredAtDeadline(item, t) ==
    IF item.Expiration = 0 THEN FALSE ELSE t >= item.Expiration

\* Item.expired at instant t
expired(item, t) ==
    IF item.Expiration = 0 THEN FALSE ELSE t > item.Expiration

\* mutant of SetExpiration: the cache's default expiration is not looked at
SetExpirationNoDefault(d, de, t) == IF d > 0 THEN t + d ELSE 0

\* the expiration Set computes from its duration argument at instant t
SetExpiration(d, de, t) ==
    LET dd == IF d = DefaultExpiration THEN de ELSE d
    IN  IF dd > 0 THEN t + dd ELSE 0

\* newCache's normalisation of the default expiration
newCacheDefault(de) == IF de = 0 THEN -1 ELSE de

\* the caller goroutines of SpecConc
Threads == {"t1", "t2"}

\* a goroutine that is in no call
IdleCall ==
    [op |-> "none", k |-> <<>>, x |-> Nil, d |-> 0, pc |-> "idle", e |-> 0,
     item |-> <<>>, i |-> 0, n |-> 0]

\* an unlocked sync.RWMutex: no writer, no readers
Unlocked == [w |-> "none", r |-> {}]

\* the janitor before Run has executed, and while no janitor exists
NoJanitor == [pc |-> "none", i |-> 0, now |-> 0]

\* mutant of newJanitor: a cleanup interval of zero starts a janitor too
newJanitorFromZero(ci) ==
    IF ci >= 0 THEN [NoJanitor EXCEPT !.pc = "start"] ELSE NoJanitor

\* newCacheWithJanitor, lines 258-261: the janitor goroutine is started iff ci > 0
newJanitor(ci) ==
    IF ci > 0 THEN [NoJanitor EXCEPT !.pc = "start"] ELSE NoJanitor

ZeroStats ==
    [ItemsCount |-> 0, GetCount |-> 0, SetCount |-> 0, ReplaceCount |-> 0,
     DeleteCount |-> 0, AddCount |-> 0, DeleteExpired |-> 0]

Bump(st, field, by) == [st EXCEPT ![field] = @ + by]

VARIABLES
    now,                \* time.Now().UnixNano()
    defaultExpiration,  \* cache.defaultExpiration
    shards,             \* cache.shards.shards: shard index -> map
    Statistic,          \* cache.Statistic
    ret,                \* the most recent completed call and what it returned
    ncalls,             \* number of calls made (Spec) or started (SpecConc)
    calls,              \* per caller goroutine: its call in progress, or its last result
    lock,               \* per shard: the state of its sync.RWMutex
    jan,                \* the janitor goroutine: its position and DeleteExpired's locals
    tick                \* whether ticker.C (capacity 1) holds a tick

seqVars == <<now, defaultExpiration, shards, Statistic, ret, ncalls>>
concVars == <<calls, lock, jan, tick>>
vars == <<now, defaultExpiration, shards, Statistic, ret, ncalls, calls, lock, jan, tick>>

\* durations a caller passes: NoExpiration, DefaultExpiration, 1 .. MaxDur
Durations == NoExpiration .. MaxDur
\* default expirations passed to New: negative, zero, positive
ConstructDefaults == {-1, 0, 1}

NoRet == [op |-> "New", k |-> <<>>, val |-> Nil, ok |-> FALSE, err |-> Nil, n |-> 0]

\* the item stored for hashed key `key` in table sh, or none
Lookup(sh, key) ==
    LET m == sh[GetShard(key)]
    IN  IF key \in DOMAIN m THEN <<m[key]>> ELSE <<>>

(***************************************************************************)
(* The bodies of the operations, as functions of the cache's state         *)
(* c = [shards, Statistic] and of the instant t the clock shows.           *)
(***************************************************************************)
CacheState(sh, st) == [shards |-> sh, Statistic |-> st]

\* cache.Set
setBody(c, k, x, d, de, t) ==
    LET e     == SetExpiration(d, de, t)
        key   == calcHash(k)
        shard == GetShard(key)
        st    == Bump(Bump(c.Statistic, "SetCount", 1), "ItemsCount", 1)
    IN  CacheState([c.shards EXCEPT ![shard] = MapPut(@, key, Item(x, e))], st)

\* mutant of getBody: an item found expired is deleted on the spot
getBodyEvicts(c, k, t) ==
    LET key   == calcHash(k)
        found == Lookup(c.shards, key)
    IN  IF found = <<>> THEN [val |-> Nil, ok |-> FALSE, c |-> c]
        ELSE IF expired(found[1], t)
        THEN [val |-> Nil, ok |-> FALSE,
              c |-> CacheState([c.shards EXCEPT ![GetShard(key)] = MapDelete(@, key)],
                               Bump(c.Statistic, "ItemsCount", -1))]
        ELSE [val |-> found[1].Object, ok |-> TRUE,
              c |-> CacheState(c.shards, Bump(c.Statistic, "GetCount", 1))]

\* cache.Get: the value, the found flag and the statistics afterwards
getBody(c, k, t) ==
    LET key   == calcHash(k)
        found == Lookup(c.shards, key)
    IN  IF found = <<>> THEN [val |-> Nil, ok |-> FALSE, c |-> c]
        ELSE IF expired(found[1], t) THEN [val |-> Nil, ok |-> FALSE, c |-> c]
        ELSE [val |-> found[1].Object, ok |-> TRUE,
              c |-> CacheState(c.shards, Bump(c.Statistic, "GetCount", 1))]

\* mutant of addBody: the item is stored without looking for an existing one
addBodyNoCheck(c, k, x, d, de, t) ==
    [err |-> Nil,
     c |-> setBody(CacheState(c.shards,
                       Bump(Bump(c.Statistic, "AddCount", 1), "ItemsCount", 1)),
                   k, x, d, de, t)]

\* cache.Add
addBody(c, k, x, d, de, t) ==
    LET g == getBody(c, k, t)
    IN  IF g.ok THEN [err |-> "already exists", c |-> g.c]
        ELSE [err |-> Nil,
              c |-> setBody(CacheState(g.c.shards,
                                Bump(Bump(g.c.Statistic, "AddCount", 1), "ItemsCount", 1)),
                            k, x, d, de, t)]

\* mutant of replaceBody: an expired item counts as existing
replaceBodyIgnoresExpiry(c, k, x, d, de, t) ==
    IF Lookup(c.shards, calcHash(k)) = <<>> THEN [err |-> "doesn't exist", c |-> c]
    ELSE [err |-> Nil,
          c |-> setBody(CacheState(c.shards,
                            Bump(Bump(c.Statistic, "ReplaceCount", 1), "ItemsCount", 1)),
                        k, x, d, de, t)]

\* cache.Replace
replaceBody(c, k, x, d, de, t) ==
    LET g == getBody(c, k, t)
    IN  IF ~g.ok THEN [err |-> "doesn't exist", c |-> g.c]
        ELSE [err |-> Nil,
              c |-> setBody(CacheState(g.c.shards,
                                Bump(Bump(g.c.Statistic, "ReplaceCount", 1), "ItemsCount", 1)),
                            k, x, d, de, t)]

\* mutant of deleteBody: the counters are updated whether or not the key was found
deleteBodyCountsAlways(c, k) ==
    LET key   == calcHash(k)
        shard == GetShard(key)
        found == Lookup(c.shards, key)
        st    == Bump(Bump(c.Statistic, "ItemsCount", -1), "DeleteCount", 1)
    IN  IF found # <<>>
        THEN [val |-> found[1].Object, ok |-> TRUE,
              c |-> CacheState([c.shards EXCEPT ![shard] = MapDelete(@, key)], st)]
        ELSE [val |-> Nil, ok |-> FALSE, c |-> CacheState(c.shards, st)]

\* cache.Delete
deleteBody(c, k) ==
    LET key   == calcHash(k)
        shard == GetShard(key)
        found == Lookup(c.shards, key)
    IN  IF found # <<>>
        THEN [val |-> found[1].Object, ok |-> TRUE,
              c |-> CacheState([c.shards EXCEPT ![shard] = MapDelete(@, key)],
                        Bump(Bump(c.Statistic, "ItemsCount", -1), "DeleteCount", 1))]
        ELSE [val |-> Nil, ok |-> FALSE, c |-> c]

\* mutant of sweepKeys: the comparison with the clock is inverted
sweepKeysInverted(m, t) ==
    {key \in DOMAIN m : m[key].Expiration > 0 /\ t < m[key].Expiration}

\* mutant of sweepKeys: an item is swept at its expiration instant already
sweepKeysAtDeadline(m, t) ==
    {key \in DOMAIN m : m[key].Expiration > 0 /\ t >= m[key].Expiration}

\* the keys of map m that one sweep started at instant t deletes
sweepKeys(m, t) ==
    {key \in DOMAIN m : m[key].Expiration > 0 /\ t > m[key].Expiration}

\* the loop body of cache.DeleteExpired on one shard's map
sweepMap(m, t) == [key \in (DOMAIN m) \ sweepKeys(m, t) |-> m[key]]

RECURSIVE SumOver(_, _)
SumOver(f, S) ==
    IF S = {} THEN 0
    ELSE LET i == CHOOSE j \in S : TRUE IN f[i] + SumOver(f, S \ {i})

\* cache.DeleteExpired
deleteExpiredBody(c, t) ==
    LET removed == SumOver([i \in ShardIds |-> Cardinality(sweepKeys(c.shards[i], t))],
                           ShardIds)
    IN  CacheState([i \in ShardIds |-> sweepMap(c.shards[i], t)],
            Bump(Bump(c.Statistic, "DeleteExpired", removed), "ItemsCount", -removed))

\* cache.ItemCount
itemCountBody(sh) ==
    SumOver([i \in ShardIds |-> Cardinality(DOMAIN sh[i])], ShardIds)

\* mutant of flushBody: the item counter is not reset
flushBodyKeepsCounter(c) == CacheState(newShardMap, c.Statistic)

\* cache.Flush
flushBody(c) ==
    CacheState(newShardMap, [c.Statistic EXCEPT !.ItemsCount = 0])

(***************************************************************************)
(* Spec: one caller, every call runs to completion.                        *)
(***************************************************************************)
Cache == CacheState(shards, Statistic)

Returned(c, r) ==
    /\ shards' = c.shards
    /\ Statistic' = c.Statistic
    /\ ret' = r
    /\ ncalls' = ncalls + 1
    /\ UNCHANGED <<now, defaultExpiration>>
    /\ UNCHANGED concVars

Set(k, x, d) ==
    /\ ncalls < MaxOps
    /\ Returned(setBody(Cache, k, x, d, defaultExpiration, now),
                [NoRet EXCEPT !.op = "Set", !.k = k])

Get(k) ==
    /\ ncalls < MaxOps
    /\ LET g == getBody(Cache, k, now)
       IN  Returned(g.c, [NoRet EXCEPT !.op = "Get", !.k = k, !.val = g.val, !.ok = g.ok])

Add(k, x, d) ==
    /\ ncalls < MaxOps
    /\ LET a == addBody(Cache, k, x, d, defaultExpiration, now)
       IN  Returned(a.c, [NoRet EXCEPT !.op = "Add", !.k = k, !.err = a.err])

Replace(k, x, d) ==
    /\ ncalls < MaxOps
    /\ LET a == replaceBody(Cache, k, x, d, defaultExpiration, now)
       IN  Returned(a.c, [NoRet EXCEPT !.op = "Replace", !.k = k, !.err = a.err])

Delete(k) ==
    /\ ncalls < MaxOps
    /\ LET r == deleteBody(Cache, k)
       IN  Returned(r.c, [NoRet EXCEPT !.op = "Delete", !.k = k, !.val = r.val,
                                       !.ok = r.ok])

DeleteExpired ==
    /\ ncalls < MaxOps
    /\ Returned(deleteExpiredBody(Cache, now), [NoRet EXCEPT !.op = "DeleteExpired"])

ItemCount ==
    /\ ncalls < MaxOps
    /\ Returned(Cache, [NoRet EXCEPT !.op = "ItemCount", !.n = itemCountBody(shards)])

Flush ==
    /\ ncalls < MaxOps
    /\ Returned(flushBody(Cache), [NoRet EXCEPT !.op = "Flush"])

\* the clock advances between calls
Tick ==
    /\ now < MaxTime
    /\ now' = now + 1
    /\ UNCHANGED <<defaultExpiration, shards, Statistic, ret, ncalls>>
    /\ UNCHANGED concVars

\* New(defaultExpiration, cleanupInterval) with cleanupInterval <= 0
Init ==
    /\ now = 1
    /\ defaultExpiration \in {newCacheDefault(de) : de \in ConstructDefaults}
    /\ shards = newShardMap
    /\ Statistic = ZeroStats
    /\ ret = NoRet
    /\ ncalls = 0
    /\ calls = [t \in Threads |-> IdleCall]
    /\ lock = [i \in ShardIds |-> Unlocked]
    /\ jan \in {newJanitor(ci) : ci \in {-1, 0}}
    /\ tick = FALSE

Next ==
    \/ \E k \in Keys, x \in Values, d \in Durations : Set(k, x, d)
    \/ \E k \in Keys : Get(k)
    \/ \E k \in Keys, x \in Values, d \in Durations : Add(k, x, d)
    \/ \E k \in Keys, x \in Values, d \in Durations : Replace(k, x, d)
    \/ \E k \in Keys : Delete(k)
    \/ DeleteExpired
    \/ ItemCount
    \/ Flush
    \/ Tick

Spec == Init /\ [][Next]_vars

(***************************************************************************)
(* Vocabulary of the properties.  These read the state directly and use    *)
(* none of the operations' bodies.                                         *)
(***************************************************************************)
\* the items stored under key k anywhere in table sh (at most one)
Stored(sh, k) ==
    {sh[i][calcHash(k)] : i \in {j \in ShardIds : calcHash(k) \in DOMAIN sh[j]}}

\* the number of entries stored in table sh
StoredCount(sh) ==
    Cardinality({<<i, q>> \in ShardIds \X {calcHash(k) : k \in Keys} : q \in DOMAIN sh[i]})

\* k has an entry in sh that has not expired at instant t
LiveAt(sh, k, t) ==
    \E it \in Stored(sh, k) : it.Expiration = 0 \/ t <= it.Expiration

\* this step is a completed call of op
Called(op) == ncalls' = ncalls + 1 /\ ret'.op = op

\* this step is a completed call of op on key k
CalledOn(op, k) == Called(op) /\ ret'.k = k

\* this step is a call that may write key k: Set/Add/Replace/Delete on k, or Flush
Writes(k) ==
    \/ \E op \in {"Set", "Add", "Replace", "Delete"} : CalledOn(op, k)
    \/ Called("Flush")

\* this step's call returned (val, ok)
Gives(val, ok) == ret'.val = val /\ ret'.ok = ok

(* C1: once Set(k, v, NoExpiration) has completed, every later Get(k) returns
   (v, true) however much time passes and however many sweeps run, as long as
   no Set/Add/Replace/Delete on k and no Flush happens in between; Get of a key
   never set returns (nil, false).  Stated step by step: the Set leaves the
   item (v, never expires); every step that is no write of k (a clock tick, a
   sweep, any call on another key) leaves that item in place, and leaves a key
   without entry without entry; and a Get(k) returns (v, true) on such an item
   and (nil, false) on a key without entry. *)
C1_NoExpirationGet ==
    [][\A k \in Keys :
        /\ \A x \in Values :
              (CalledOn("Set", k) /\ Set(k, x, NoExpiration))
                  => Stored(shards', k) = {Item(x, 0)}
        /\ (~Writes(k) /\ \E it \in Stored(shards, k) : it.Expiration = 0)
              => Stored(shards', k) = Stored(shards, k)
        /\ (~Writes(k) /\ Stored(shards, k) = {}) => Stored(shards', k) = {}
        /\ CalledOn("Get", k) =>
              /\ \A it \in Stored(shards, k) :
                    it.Expiration = 0 => Gives(it.Object, TRUE)
              /\ Stored(shards, k) = {} => Gives(Nil, FALSE)
      ]_vars

\* a Get that found a never-expiring item at the last instant of the clock
C1_Witness ==
    /\ ret.op = "Get" /\ ret.ok /\ ret.val \in Values
    /\ now = MaxTime
    /\ \E it \in Stored(shards, ret.k) : it.Expiration = 0 /\ it.Object = ret.val

(* C2: after Set(k, v, d) with d > 0 at instant t, and no later write of k,
   Get(k) returns (v, true) at every instant now <= t + d and (nil, false) at
   every instant now > t + d, whether or not a sweep has run: the Set stores
   (v, t + d); the clock never goes back; a step that is no write of k keeps
   the item, or removes it only once now > t + d; and Get(k) on an item with
   expiration e > 0 returns (v, true) exactly when now <= e, and (nil, false)
   otherwise and when the item is gone. *)
C2_ExpiringGet ==
    [][/\ now' >= now
       /\ \A k \in Keys :
           /\ \A x \in Values, d \in 1 .. MaxDur :
                 (CalledOn("Set", k) /\ Set(k, x, d))
                     => Stored(shards', k) = {Item(x, now + d)}
           /\ \A it \in Stored(shards, k) :
                 (~Writes(k) /\ it.Expiration > 0) =>
                     \/ Stored(shards', k) = {it}
                     \/ now > it.Expiration /\ Stored(shards', k) = {}
           /\ CalledOn("Get", k) =>
                 /\ \A it \in Stored(shards, k) :
                       it.Expiration > 0 =>
                           IF now <= it.Expiration THEN Gives(it.Object, TRUE)
                                                   ELSE Gives(Nil, FALSE)
                 /\ Stored(shards, k) = {} => Gives(Nil, FALSE)
      ]_vars

\* a Get that reported an expired item, which no sweep has removed, as not found
C2_Witness ==
    /\ ret.op = "Get" /\ ~ret.ok /\ ret.val = Nil
    /\ \E it \in Stored(shards, ret.k) : it.Expiration > 0 /\ now > it.Expiration

(* C3: Add(k, v, d) without interference.  If k has no entry or only an
   expired one, Add returns nil, stores v for k in a live entry and touches
   no other key, and the Get(k) that follows it (before that entry expires)
   returns (v, true).  If k has a live entry, Add returns the "already
   exists" error and every stored entry is exactly as before. *)
C3_Add ==
    [][\A k \in Keys :
        /\ \A x \in Values, d \in Durations :
              (CalledOn("Add", k) /\ ~LiveAt(shards, k, now) /\ Add(k, x, d)) =>
                  /\ ret'.err = Nil
                  /\ LiveAt(shards', k, now)
                  /\ \A it \in Stored(shards', k) : it.Object = x
                  /\ \A k2 \in Keys \ {k} : Stored(shards', k2) = Stored(shards, k2)
        /\ (CalledOn("Add", k) /\ LiveAt(shards, k, now)) =>
              /\ ret'.err = "already exists"
              /\ shards' = shards
        /\ (ret.op = "Add" /\ ret.err = Nil /\ ret.k = k
              /\ CalledOn("Get", k) /\ LiveAt(shards, k, now)) =>
              \E it \in Stored(shards, k) : Gives(it.Object, TRUE)
      ]_vars

\* an Add that was refused because the key has a live entry
C3_Witness ==
    /\ ret.op = "Add" /\ ret.err = "already exists"
    /\ LiveAt(shards, ret.k, now)

(* C4: Replace(k, v, d) without interference.  If k has a live entry, Replace
   returns nil and stores v for k, and the Get(k) that follows it (before the
   new entry expires) returns (v, true).  If k is absent or its entry is
   expired, Replace returns the "doesn't exist" error, no entry is created or
   changed in any shard, and the Get(k) that follows returns (nil, false). *)
C4_Replace ==
    [][\A k \in Keys :
        /\ \A x \in Values, d \in Durations :
              (CalledOn("Replace", k) /\ LiveAt(shards, k, now) /\ Replace(k, x, d)) =>
                  /\ ret'.err = Nil
                  /\ LiveAt(shards', k, now)
                  /\ \A it \in Stored(shards', k) : it.Object = x
                  /\ \A k2 \in Keys \ {k} : Stored(shards', k2) = Stored(shards, k2)
        /\ (CalledOn("Replace", k) /\ ~LiveAt(shards, k, now)) =>
              /\ ret'.err = "doesn't exist"
              /\ shards' = shards
        /\ (ret.op = "Replace" /\ ret.k = k /\ CalledOn("Get", k)) =>
              IF ret.err = Nil
              THEN LiveAt(shards, k, now) =>
                      \E it \in Stored(shards, k) : Gives(it.Object, TRUE)
              ELSE Gives(Nil, FALSE)
      ]_vars

\* a Replace that was refused on an entry that is stored but expired
C4_Witness ==
    /\ ret.op = "Replace" /\ ret.err = "doesn't exist"
    /\ Stored(shards, ret.k) # {}
    /\ ~LiveAt(shards, ret.k, now)

(* C5: Delete(k) on a key that has an entry (expired or not) returns (previous
   value, true) and removes the entry: the number of stored entries, which is
   what ItemCount() returns, is one less, and the Get(k) that follows returns
   (nil, false).  Delete(k) on a key without entry returns (nil, false) and
   leaves every shard, hence ItemCount(), and the item counter unchanged. *)
C5_Delete ==
    [][/\ Called("ItemCount") => ret'.n = StoredCount(shards)
       /\ \A k \in Keys :
           /\ CalledOn("Delete", k) =>
                 /\ \A it \in Stored(shards, k) :
                       /\ Gives(it.Object, TRUE)
                       /\ Stored(shards', k) = {}
                       /\ StoredCount(shards') = StoredCount(shards) - 1
                       /\ \A k2 \in Keys \ {k} : Stored(shards', k2) = Stored(shards, k2)
                 /\ Stored(shards, k) = {} =>
                       /\ Gives(Nil, FALSE)
                       /\ shards' = shards
                       /\ Statistic'.ItemsCount = Statistic.ItemsCount
           /\ (ret.op = "Delete" /\ ret.k = k /\ CalledOn("Get", k)) =>
                 Gives(Nil, FALSE)
      ]_vars

\* a Delete that removed an entry and returned its value
C5_Witness ==
    /\ ret.op = "Delete" /\ ret.ok /\ ret.val \in Values
    /\ Stored(shards, ret.k) = {}
    /\ Statistic.DeleteCount = 1

(* C6: after any sequence of Set/Add/Replace/Delete calls, Flush() leaves no
   entry stored and the item counter at 0, so that the ItemCount() that
   follows returns 0 and every Get(k) that follows returns (nil, false). *)
C6_Flush ==
    [][/\ Called("Flush") =>
             /\ StoredCount(shards') = 0
             /\ \A k \in Keys : Stored(shards', k) = {}
             /\ \A i \in ShardIds : DOMAIN shards'[i] = {}
             /\ Statistic'.ItemsCount = 0
       /\ (ret.op = "Flush" /\ Called("ItemCount")) => ret'.n = 0
       /\ (ret.op = "Flush" /\ Called("Get")) => Gives(Nil, FALSE)
      ]_vars

\* ItemCount() returned 0 after a Set whose entry only a Flush can have removed
C6_Witness ==
    /\ ret.op = "ItemCount" /\ ret.n = 0
    /\ Statistic.SetCount > 0
    /\ Statistic.DeleteCount = 0 /\ Statistic.DeleteExpired = 0
    /\ Statistic.ItemsCount = 0

(***************************************************************************)
(* SpecConc: caller goroutines and the janitor, one step per lock          *)
(* operation and per map access.  calls[t].pc names the statement          *)
(* goroutine t executes next; a goroutine that waits for a lock is at the  *)
(* Lock/RLock statement until the lock is free.  The ticker's period is    *)
(* one unit of the clock.                                                  *)
(***************************************************************************)
\* durations the concurrent callers pass
ConcDurations == {NoExpiration, MaxDur}

ShardOf(k) == GetShard(calcHash(k))

\* sync.RWMutex
CanLock(l) == l.w = "none" /\ l.r = {}
CanRLock(l) == l.w = "none"
Locked(l, who) == [l EXCEPT !.w = who]
RLocked(l, who) == [l EXCEPT !.r = @ \cup {who}]
RUnlocked(l, who) == [l EXCEPT !.r = @ \ {who}]

\* goroutine t starts a call: its record, with the arguments
Started(op, k, x, d, pc) ==
    [IdleCall EXCEPT !.op = op, !.k = k, !.x = x, !.d = d, !.pc = pc]

\* what the call c returns to its caller
Result(c, val, ok, err, n) ==
    [op |-> c.op, k |-> c.k, val |-> val, ok |-> ok, err |-> err, n |-> n]

CanStart(t) == calls[t].pc = "idle" /\ ncalls < MaxCalls

\* Set, lines 88-99: the expiration is computed and the counters are bumped
SetBegin(t, k, x, d) ==
    /\ CanStart(t)
    /\ calls' = [calls EXCEPT ![t] =
                    [Started("Set", k, x, d, "SetLock") EXCEPT
                        !.e = SetExpiration(d, defaultExpiration, now)]]
    /\ Statistic' = Bump(Bump(Statistic, "SetCount", 1), "ItemsCount", 1)
    /\ ncalls' = ncalls + 1
    /\ UNCHANGED <<now, defaultExpiration, shards, ret, lock, jan, tick>>

\* Set, line 100: shard.Lock()
SetLock(t) ==
    /\ calls[t].pc = "SetLock"
    /\ CanLock(lock[ShardOf(calls[t].k)])
    /\ lock' = [lock EXCEPT ![ShardOf(calls[t].k)] = Locked(@, t)]
    /\ calls' = [calls EXCEPT ![t].pc = "SetWrite"]
    /\ UNCHANGED <<seqVars, jan, tick>>

\* Set, lines 101-105: the map assignment and shard.Unlock(); Set, and an Add or
\* Replace that called it, return
SetWrite(t) ==
    LET c == calls[t] IN
    /\ c.pc = "SetWrite"
    /\ shards' = [shards EXCEPT ![ShardOf(c.k)] = MapPut(@, calcHash(c.k), Item(c.x, c.e))]
    /\ lock' = [lock EXCEPT ![ShardOf(c.k)] = Unlocked]
    /\ calls' = [calls EXCEPT ![t] = IdleCall]
    /\ ret' = Result(c, Nil, FALSE, Nil, 0)
    /\ UNCHANGED <<now, defaultExpiration, Statistic, ncalls, jan, tick>>

\* Get, lines 138-140, called directly (op = "Get") or from Add or Replace:
\* shard.RLock()
GetRLock(t, op, k, x, d) ==
    /\ CanStart(t)
    /\ CanRLock(lock[ShardOf(k)])
    /\ lock' = [lock EXCEPT ![ShardOf(k)] = RLocked(@, t)]
    /\ calls' = [calls EXCEPT ![t] = Started(op, k, x, d, "GetRead")]
    /\ ncalls' = ncalls + 1
    /\ UNCHANGED <<now, defaultExpiration, shards, Statistic, ret, jan, tick>>

\* what Get's caller does with Get's result (lines 144-153, 111-116, 124-129)
GotResult(t, found, item) ==
    LET c  == calls[t]
        st == IF found THEN Bump(Statistic, "GetCount", 1) ELSE Statistic
        v  == IF found THEN item.Object ELSE Nil
    IN  /\ Statistic' = st
        /\ IF c.op = "Get" \/ (c.op = "Add" /\ found) \/ (c.op = "Replace" /\ ~found)
           THEN /\ calls' = [calls EXCEPT ![t] = IdleCall]
                /\ ret' = CASE c.op = "Get" -> Result(c, v, found, Nil, 0)
                            [] c.op = "Add" -> Result(c, Nil, FALSE, "already exists", 0)
                            [] c.op = "Replace" -> Result(c, Nil, FALSE, "doesn't exist", 0)
           ELSE /\ calls' = [calls EXCEPT ![t] = [c EXCEPT !.pc = "SetEnter", !.item = <<>>]]
                /\ UNCHANGED ret

\* Get, lines 141-146: the map lookup and shard.RUnlock(); an item that never
\* expires is found without a look at the clock (line 67)
GetRead(t) ==
    LET c     == calls[t]
        found == Lookup(shards, calcHash(c.k))
    IN  /\ c.pc = "GetRead"
        /\ lock' = [lock EXCEPT ![ShardOf(c.k)] = RUnlocked(@, t)]
        /\ IF found = <<>> THEN GotResult(t, FALSE, Item(Nil, 0))
           ELSE IF found[1].Expiration = 0 THEN GotResult(t, TRUE, found[1])
           ELSE /\ calls' = [calls EXCEPT ![t].pc = "GetExpired", ![t].item = found]
                /\ UNCHANGED <<Statistic, ret>>
        /\ UNCHANGED <<now, defaultExpiration, shards, ncalls, jan, tick>>

\* Get, lines 148-153: item.expired() reads the clock
GetExpired(t) ==
    LET c == calls[t] IN
    /\ c.pc = "GetExpired"
    /\ GotResult(t, ~expired(c.item[1], now), c.item[1])
    /\ UNCHANGED <<now, defaultExpiration, shards, ncalls, lock, jan, tick>>

\* Add, lines 115-117, and Replace, lines 128-130: the counters, then Set's
\* lines 88-99
SetEnter(t) ==
    LET c  == calls[t]
        st == Bump(Bump(Statistic, IF c.op = "Add" THEN "AddCount" ELSE "ReplaceCount", 1),
                   "ItemsCount", 1)
    IN  /\ c.pc = "SetEnter"
        /\ Statistic' = Bump(Bump(st, "SetCount", 1), "ItemsCount", 1)
        /\ calls' = [calls EXCEPT ![t].pc = "SetLock",
                                  ![t].e = SetExpiration(c.d, defaultExpiration, now)]
        /\ UNCHANGED <<now, defaultExpiration, shards, ret, ncalls, lock, jan, tick>>

\* Delete, lines 157-161 and 167: the map lookup, with no lock taken
DeleteLookup(t, k) ==
    LET found == Lookup(shards, calcHash(k)) IN
    /\ CanStart(t)
    /\ IF found = <<>>
       THEN /\ ret' = Result(Started("Delete", k, Nil, 0, "idle"), Nil, FALSE, Nil, 0)
            /\ UNCHANGED calls
       ELSE /\ calls' = [calls EXCEPT ![t] =
                  [Started("Delete", k, Nil, 0, "DeleteRemove") EXCEPT !.item = found]]
            /\ UNCHANGED ret
    /\ ncalls' = ncalls + 1
    /\ UNCHANGED <<now, defaultExpiration, shards, Statistic, lock, jan, tick>>

\* Delete, lines 162-165: the counters and delete(shard.m, key), with no lock taken
DeleteRemove(t) ==
    LET c == calls[t] IN
    /\ c.pc = "DeleteRemove"
    /\ Statistic' = Bump(Bump(Statistic, "ItemsCount", -1), "DeleteCount", 1)
    /\ shards' = [shards EXCEPT ![ShardOf(c.k)] = MapDelete(@, calcHash(c.k))]
    /\ calls' = [calls EXCEPT ![t] = IdleCall]
    /\ ret' = Result(c, c.item[1].Object, TRUE, Nil, 0)
    /\ UNCHANGED <<now, defaultExpiration, ncalls, lock, jan, tick>>

\* ItemCount, lines 191-192: size := 0 and the range over the shards
ItemCountBegin(t) ==
    /\ CanStart(t)
    /\ calls' = [calls EXCEPT ![t] = Started("ItemCount", <<>>, Nil, 0, "CountRLock")]
    /\ ncalls' = ncalls + 1
    /\ UNCHANGED <<now, defaultExpiration, shards, Statistic, ret, lock, jan, tick>>

\* ItemCount, line 193: m.RLock()
CountRLock(t) ==
    /\ calls[t].pc = "CountRLock"
    /\ CanRLock(lock[calls[t].i])
    /\ lock' = [lock EXCEPT ![calls[t].i] = RLocked(@, t)]
    /\ calls' = [calls EXCEPT ![t].pc = "CountRead"]
    /\ UNCHANGED <<seqVars, jan, tick>>

\* ItemCount, lines 194-197: size += len(m.m), m.RUnlock(), the next shard or return
CountRead(t) ==
    LET c == calls[t]
        n == c.n + Cardinality(DOMAIN shards[c.i])
    IN  /\ c.pc = "CountRead"
        /\ lock' = [lock EXCEPT ![c.i] = RUnlocked(@, t)]
        /\ IF c.i + 1 = shardCount
           THEN /\ calls' = [calls EXCEPT ![t] = IdleCall]
                /\ ret' = Result(c, Nil, FALSE, Nil, n)
           ELSE /\ calls' = [calls EXCEPT ![t] =
                                [c EXCEPT !.pc = "CountRLock", !.i = c.i + 1, !.n = n]]
                /\ UNCHANGED ret
        /\ UNCHANGED <<now, defaultExpiration, shards, Statistic, ncalls, jan, tick>>

\* janitor.Run, lines 212-213: the stop channel and the ticker are made
JanitorStart ==
    /\ jan.pc = "start"
    /\ jan' = [jan EXCEPT !.pc = "select"]
    /\ UNCHANGED <<seqVars, calls, lock, tick>>

\* janitor.Run, lines 215-217, and DeleteExpired, lines 172-173: a tick is
\* received, the sweep reads the clock once and starts at the first shard
JanitorTick ==
    /\ jan.pc = "select"
    /\ tick
    /\ tick' = FALSE
    /\ jan' = [pc |-> "SweepLock", i |-> 0, now |-> now]
    /\ UNCHANGED <<seqVars, calls, lock>>

\* DeleteExpired, lines 174-175: sh.Lock()
SweepLock ==
    /\ jan.pc = "SweepLock"
    /\ CanLock(lock[jan.i])
    /\ lock' = [lock EXCEPT ![jan.i] = Locked(@, "janitor")]
    /\ jan' = [jan EXCEPT !.pc = "SweepShard"]
    /\ UNCHANGED <<seqVars, calls, tick>>

\* mutant of SweepShard: sh.Unlock() is left out
SweepShardNoUnlock ==
    LET removed == Cardinality(sweepKeys(shards[jan.i], jan.now)) IN
    /\ jan.pc = "SweepShard"
    /\ shards' = [shards EXCEPT ![jan.i] = sweepMap(@, jan.now)]
    /\ Statistic' = Bump(Bump(Statistic, "DeleteExpired", removed), "ItemsCount", -removed)
    /\ jan' = IF jan.i + 1 = shardCount THEN [pc |-> "select", i |-> 0, now |-> 0]
              ELSE [jan EXCEPT !.pc = "SweepLock", !.i = jan.i + 1]
    /\ UNCHANGED <<now, defaultExpiration, ret, ncalls, calls, tick, lock>>

\* DeleteExpired, lines 176-184: the expired items of one shard are deleted and
\* counted, sh.Unlock(), the next shard or back to the select
SweepShard ==
    LET removed == Cardinality(sweepKeys(shards[jan.i], jan.now)) IN
    /\ jan.pc = "SweepShard"
    /\ shards' = [shards EXCEPT ![jan.i] = sweepMap(@, jan.now)]
    /\ Statistic' = Bump(Bump(Statistic, "DeleteExpired", removed), "ItemsCount", -removed)
    /\ lock' = [lock EXCEPT ![jan.i] = Unlocked]
    /\ jan' = IF jan.i + 1 = shardCount THEN [pc |-> "select", i |-> 0, now |-> 0]
              ELSE [jan EXCEPT !.pc = "SweepLock", !.i = jan.i + 1]
    /\ UNCHANGED <<now, defaultExpiration, ret, ncalls, calls, tick>>

\* the clock advances by the ticker's period; a running ticker (made at line
\* 213, stopped at line 219) puts a tick into ticker.C unless one is waiting
\* there already.  Past MaxTime the clock of the
\* model stands still and the ticker keeps ticking.
ClockTick ==
    /\ now' = IF now < MaxTime THEN now + 1 ELSE now
    /\ tick' = IF jan.pc \in {"none", "start", "stopped"} THEN tick ELSE TRUE
    /\ UNCHANGED <<defaultExpiration, shards, Statistic, ret, ncalls, calls, lock, jan>>

\* New(NoExpiration, cleanupInterval) with cleanupInterval > 0: runJanitor has
\* started the janitor goroutine
ConcInit ==
    /\ now = 1
    /\ defaultExpiration = newCacheDefault(NoExpiration)
    /\ shards = newShardMap
    /\ Statistic = ZeroStats
    /\ ret = NoRet
    /\ ncalls = 0
    /\ calls = [t \in Threads |-> IdleCall]
    /\ lock = [i \in ShardIds |-> Unlocked]
    /\ jan = newJanitor(1)
    /\ tick = FALSE

\* the key the concurrent callers contend for, and the value each of them passes
ConcKeys == {<<102>>}
ValueOf(t) == IF t = "t1" THEN "x" ELSE "y"

\* goroutine t starts a call
CallerStart(t) ==
    \/ \E k \in ConcKeys, d \in ConcDurations : SetBegin(t, k, ValueOf(t), d)
    \/ \E k \in ConcKeys : GetRLock(t, "Get", k, Nil, 0)
    \/ \E k \in ConcKeys, d \in ConcDurations : GetRLock(t, "Add", k, ValueOf(t), d)
    \/ \E k \in ConcKeys, d \in ConcDurations : GetRLock(t, "Replace", k, ValueOf(t), d)
    \/ \E k \in ConcKeys : DeleteLookup(t, k)

\* goroutine t takes the next step of the call it is in
CallerStep(t) ==
    \/ SetLock(t)
    \/ SetWrite(t)
    \/ GetRead(t)
    \/ GetExpired(t)
    \/ SetEnter(t)
    \/ DeleteRemove(t)

CallerNext(t) == CallerStart(t) \/ CallerStep(t)

JanitorNext ==
    \/ JanitorStart
    \/ JanitorTick
    \/ SweepLock
    \/ SweepShard

ConcNext ==
    \/ \E t \in Threads : CallerNext(t)
    \/ JanitorNext
    \/ ClockTick

SpecConc == ConcInit /\ [][ConcNext]_vars

(***************************************************************************)
(* SpecLive: one caller of Set, Get, Delete and ItemCount and the janitor, *)
(* under the fairness of the Go runtime: a goroutine that can run does     *)
(* run (the janitor, and a caller inside a call), time passes, and a       *)
(* goroutine waiting for a sync.RWMutex gets it if it is free again and    *)
(* again.  Nothing obliges a caller to start a call.                       *)
(***************************************************************************)
LiveCaller == "t1"

\* the caller starts a call
LiveStart ==
    /\ ncalls < MaxLiveCalls
    /\ \/ \E k \in ConcKeys, d \in ConcDurations :
             SetBegin(LiveCaller, k, ValueOf(LiveCaller), d)
       \/ \E k \in ConcKeys : GetRLock(LiveCaller, "Get", k, Nil, 0)
       \/ \E k \in ConcKeys : DeleteLookup(LiveCaller, k)
       \/ ItemCountBegin(LiveCaller)

\* the caller takes the next step of its call, other than waiting for a lock
LiveStep ==
    \/ SetWrite(LiveCaller)
    \/ GetRead(LiveCaller)
    \/ GetExpired(LiveCaller)
    \/ DeleteRemove(LiveCaller)
    \/ CountRead(LiveCaller)

\* the caller gets the lock it waits for
LiveLock ==
    \/ SetLock(LiveCaller)
    \/ CountRLock(LiveCaller)

LiveNext ==
    \/ LiveStart
    \/ LiveStep
    \/ LiveLock
    \/ JanitorNext
    \/ ClockTick

Fairness ==
    /\ WF_vars(ClockTick)
    /\ WF_vars(JanitorNext)
    /\ SF_vars(SweepLock)
    /\ WF_vars(LiveStep)
    /\ SF_vars(LiveLock)

SpecLive == ConcInit /\ [][LiveNext]_vars /\ Fairness

\* goroutine t's call is at a statement that reads or writes the map of shard i
InMap(t, i) ==
    \/ calls[t].pc \in {"SetWrite", "GetRead", "DeleteRemove"} /\ ShardOf(calls[t].k) = i
    \/ calls[t].pc = "CountRead" /\ calls[t].i = i

(* C7: every access to a shard's map is made under that shard's lock, so a
   goroutine that is inside a shard's map in Delete is never there at the same
   time as a writer (Set, the sweep, another Delete) or a reader (Get,
   ItemCount) of the same shard. *)
C7_DeleteExcludesOthers ==
    \A t \in Threads, i \in ShardIds :
        (calls[t].pc = "DeleteRemove" /\ InMap(t, i)) =>
            /\ jan.pc = "SweepShard" => jan.i # i
            /\ \A t2 \in Threads \ {t} : ~InMap(t2, i)

\* goroutine t's step is the map assignment of the Set that op called
WritesFor(t, op) ==
    calls[t].op = op /\ calls[t].pc = "SetWrite" /\ calls'[t].pc = "idle"

(* C8: Add inserts an item only if no live entry exists for the key at the
   moment of the write, also under concurrency: of two concurrent Adds of an
   absent key at most one succeeds, and a successful Add never overwrites a
   live entry written by another caller. *)
C8_AddWritesOnlyIfNotLive ==
    [][\A t \in Threads :
          WritesFor(t, "Add") => ~LiveAt(shards, calls[t].k, now)]_vars

(* C9: Replace sets a new value only if the key has an entry at the moment of
   the write, also under concurrency with Delete or the sweep: Replace never
   creates an entry for a key that is absent when it writes. *)
C9_ReplaceWritesOnlyIfPresent ==
    [][\A t \in Threads :
          WritesFor(t, "Replace") => Stored(shards, calls[t].k) # {}]_vars

\* key k has a stored entry whose expiration instant has passed
ExpiredStored(k) ==
    \E it \in Stored(shards, k) : it.Expiration > 0 /\ now > it.Expiration

(* C10: with a running janitor, every entry with a finite expiration is
   eventually removed from its shard once its expiration instant has passed
   (under fair scheduling of the janitor and the ticks); and a Get that reads
   the clock after that instant returns (nil, false), removed or not. *)
C10_ExpiredEventuallyRemoved ==
    /\ \A k \in Keys : ExpiredStored(k) ~> ~ExpiredStored(k)
    /\ [][\A t \in Threads :
            (/\ calls[t].op = "Get" /\ calls[t].pc = "GetExpired"
             /\ calls'[t].pc = "idle"
             /\ now > calls[t].item[1].Expiration) => Gives(Nil, FALSE)]_vars

\* the janitor's sweep has removed an expired entry and ItemCount() returned 0
C10_Witness ==
    /\ Statistic.DeleteExpired > 0
    /\ ret.op = "ItemCount" /\ ret.n = 0
    /\ \A k \in Keys : Stored(shards, k) = {}

(***************************************************************************)
(* SpecStop: the janitor, the goroutine that runs stopJanitor (the         *)
(* finalizer of the Cache), and one caller of Set.  The stop signal is     *)
(* sent at most once, at any point after New has returned.  Fairness: the  *)
(* janitor and the clock run, a caller inside a call takes its next step,  *)
(* and a select with a sender waiting on j.stop again and again takes that *)
(* case (Go chooses among the ready cases at random).                      *)
(***************************************************************************)
Stopper == "t2"

\* stopJanitor, line 226: the operand c.janitor.stop is read.  The field is nil
\* until janitor.Run has executed line 212.
StopBegin(t) ==
    /\ calls[t].pc = "idle"
    /\ jan.pc \notin {"none", "stopped"}
    /\ \A u \in Threads : calls[u].op # "stopJanitor"
    /\ calls' = [calls EXCEPT ![t] =
                    Started("stopJanitor", <<>>, Nil, 0,
                            IF jan.pc = "start" THEN "SendNil" ELSE "Send")]
    /\ UNCHANGED <<seqVars, lock, jan, tick>>

\* mutant of JanitorStop: the stop is also taken while a sweep is under way
JanitorStopMidSweep(t) ==
    /\ jan.pc \in {"select", "SweepLock"}
    /\ calls[t].pc = "Send"
    /\ jan' = [pc |-> "stopped", i |-> 0, now |-> 0]
    /\ calls' = [calls EXCEPT ![t] = IdleCall]
    /\ ret' = Result(calls[t], Nil, FALSE, Nil, 0)
    /\ UNCHANGED <<now, defaultExpiration, shards, Statistic, ncalls, lock, tick>>

\* janitor.Run, lines 218-220, and stopJanitor, line 226: the select receives
\* from j.stop what a sender on that channel sends (the channel has no buffer),
\* ticker.Stop(), return.  A send on a nil channel (pc "SendNil") has no
\* receiver, ever.
JanitorStop(t) ==
    /\ jan.pc = "select"
    /\ calls[t].pc = "Send"
    /\ jan' = [pc |-> "stopped", i |-> 0, now |-> 0]
    /\ calls' = [calls EXCEPT ![t] = IdleCall]
    /\ ret' = Result(calls[t], Nil, FALSE, Nil, 0)
    /\ UNCHANGED <<now, defaultExpiration, shards, Statistic, ncalls, lock, tick>>

\* the caller's Set
StopCaller ==
    \/ \E k \in ConcKeys, d \in ConcDurations :
          SetBegin(LiveCaller, k, ValueOf(LiveCaller), d)
    \/ SetLock(LiveCaller)
    \/ SetWrite(LiveCaller)

StopNext ==
    \/ StopBegin(Stopper)
    \/ JanitorStop(Stopper)
    \/ JanitorNext
    \/ StopCaller
    \/ ClockTick

StopFairness ==
    /\ WF_vars(ClockTick)
    /\ WF_vars(JanitorNext)
    /\ SF_vars(SweepLock)
    /\ SF_vars(JanitorStop(Stopper))
    /\ WF_vars(SetWrite(LiveCaller))
    /\ SF_vars(SetLock(LiveCaller))

SpecStop == ConcInit /\ [][StopNext]_vars /\ StopFairness

\* a goroutine is inside stopJanitor
StopRequested == \E t \in Threads : calls[t].op = "stopJanitor"

(* C11: a stop signal delivered at any point after the constructor has
   returned, also before the janitor's loop has taken its first step, is
   eventually received: the sender returns and the janitor is stopped. *)
C11_StopEventuallyReceived ==
    StopRequested ~> (jan.pc = "stopped" /\ ~StopRequested)

\* the janitor is inside a sweep (DeleteExpired called from its loop)
Sweeping == jan.pc \in {"SweepLock", "SweepShard"}

(* C18: ticks and the stop signal are observed by one loop: a stop is accepted
   only between sweeps, so a sweep that has started visits every shard, in
   order, before the janitor can stop; and a stopped janitor never runs
   again. *)
C18_StopOnlyBetweenSweeps ==
    /\ [][jan'.pc = "stopped" => jan.pc \in {"select", "stopped"}]_vars
    /\ [][Sweeping =>
            \/ Sweeping' /\ jan'.i \in {jan.i, jan.i + 1} /\ jan'.now = jan.now
            \/ jan'.pc = "select" /\ jan.pc = "SweepShard" /\ jan.i = shardCount - 1]_vars
    /\ [][jan.pc = "stopped" => jan' = jan /\ tick' = tick]_vars

\* the janitor has swept an expired entry away and has been stopped afterwards
C18_Witness ==
    /\ jan.pc = "stopped"
    /\ ret.op = "stopJanitor"
    /\ Statistic.DeleteExpired > 0

(* C12: duration resolution.  Set(k, v, DefaultExpiration) stores an entry
   that never expires when the cache's default expiration is not positive and
   one expiring at now + default when it is; Set(k, v, NoExpiration) stores an
   entry that never expires; Set(k, v, d) with d > 0 stores an entry expiring
   at now + d whatever the default. *)
C12_DurationResolution ==
    [][\A k \in Keys, x \in Values, d \in Durations :
          (CalledOn("Set", k) /\ Set(k, x, d)) =>
              Stored(shards', k) =
                  {Item(x, CASE d > 0 -> now + d
                             [] d = NoExpiration -> 0
                             [] d = DefaultExpiration /\ defaultExpiration > 0
                                    -> now + defaultExpiration
                             [] d = DefaultExpiration /\ defaultExpiration <= 0 -> 0)}]_vars

\* a Set has stored an entry that expires one default expiration from now
C12_Witness ==
    /\ defaultExpiration > 0
    /\ ret.op = "Set"
    /\ \E it \in Stored(shards, ret.k) : it.Expiration = now + defaultExpiration

(* C13: a cache built with cleanupInterval <= 0 has no janitor and no sweep
   runs on its own: an expired entry stays in its shard, and stays counted by
   ItemCount(), until a Delete of its key, a Flush or a DeleteExpired call. *)
C13_NoJanitorNoSweep ==
    /\ [](jan = NoJanitor /\ ~tick)
    /\ [][\A k \in Keys :
            (/\ ExpiredStored(k)
             /\ ~(CalledOn("Delete", k) \/ Called("Flush") \/ Called("DeleteExpired")))
            => Stored(shards', k) # {}]_vars
    /\ [][Called("ItemCount") => ret'.n = StoredCount(shards)]_vars

\* ItemCount() has counted an entry that expired before the call
C13_Witness ==
    /\ jan = NoJanitor
    /\ ret.op = "ItemCount" /\ ret.n = 1
    /\ \E k \in Keys : ExpiredStored(k)

\* item it is one that a sweep at instant t has to remove
SweptAt(it, t) == it.Expiration > 0 /\ it.Expiration < t

(* C14: one DeleteExpired removes exactly the entries whose expiration is
   finite and strictly earlier than the instant it started at; it leaves every
   never-expiring entry and every entry Get would still find, and per removal
   it takes one from the item counter and adds one to the expired-delete
   counter. *)
C14_SweepExact ==
    [][Called("DeleteExpired") =>
         LET removed == StoredCount(shards) - StoredCount(shards')
         IN  /\ \A k \in Keys :
                   /\ Stored(shards', k) = {it \in Stored(shards, k) : ~SweptAt(it, now)}
                   /\ LiveAt(shards, k, now) => Stored(shards', k) = Stored(shards, k)
             /\ Statistic'.ItemsCount = Statistic.ItemsCount - removed
             /\ Statistic'.DeleteExpired = Statistic.DeleteExpired + removed]_vars

\* a DeleteExpired call has removed an entry and left another one
C14_Witness ==
    /\ ret.op = "DeleteExpired"
    /\ Statistic.DeleteExpired = 1
    /\ StoredCount(shards) = 1

(* C15: Get(k) never changes what is stored: the table and the item counter
   are the same after it as before, an expired entry is still stored after
   the Get that reported it as not found, and the get counter goes up by one
   exactly when Get returns found. *)
C15_GetChangesNothing ==
    [][\A k \in Keys :
          CalledOn("Get", k) =>
              /\ shards' = shards
              /\ Statistic' = [Statistic EXCEPT
                                  !.GetCount = @ + (IF ret'.ok THEN 1 ELSE 0)]
              /\ ExpiredStored(k) => Gives(Nil, FALSE)]_vars

\* Get has reported an expired entry as not found and the entry is still stored
C15_Witness ==
    /\ ret.op = "Get" /\ ~ret.ok
    /\ ExpiredStored(ret.k)

(* C19: whenever no operation is in progress, after any sequence of Set, Add,
   Replace, Delete, DeleteExpired and Flush calls, the item counter of the
   statistics equals the number of entries stored, the value ItemCount()
   returns. *)
C19_ItemsCountIsStoredCount ==
    Statistic.ItemsCount = StoredCount(shards)

(* C20: each stored entry is removed at most once: of several concurrent
   Delete(k) calls (or a Delete(k) and a sweep) on one stored entry only one
   reports the removal, so a Delete that returns (value, true) removes an
   entry that is stored when it removes, and the item counter goes down by
   the number of entries removed. *)
C20_RemovedOnce ==
    [][\A t \in Threads :
          (calls[t].pc = "DeleteRemove" /\ calls'[t].pc = "idle") =>
              /\ Stored(shards, calls[t].k) # {}
              /\ Statistic.ItemsCount - Statistic'.ItemsCount
                     = StoredCount(shards) - StoredCount(shards')]_vars

(***************************************************************************)
(* SpecFlush: two callers of Set, Get and Flush on a cache without         *)
(* janitor.  Flush assigns a new table to c.shards with no lock and no     *)
(* atomic operation.  Set and Get read c.shards once, in GetShard; a call  *)
(* that has read it before the assignment goes on in the shard of the      *)
(* discarded table, whose mutex and map nobody else reaches any more (of   *)
(* two callers one is the one that flushes).  A read of c.shards that      *)
(* overlaps the assignment gives the old table or the new one: both have   *)
(* shardCount 10 and slices of length 10, so a torn read of the struct     *)
(* differs from these two in nothing.                                      *)
(***************************************************************************)
\* the call c after another goroutine's Flush has replaced the table: a call
\* that holds a shard of the old table stays there (for Get: with what that
\* shard's map holds, which no longer changes)
Discarded(c) ==
    CASE c.pc = "SetLock"  -> [c EXCEPT !.pc = "SetLockOld"]
      [] c.pc = "SetWrite" -> [c EXCEPT !.pc = "SetWriteOld"]
      [] c.pc = "GetRead"  -> [c EXCEPT !.pc = "GetReadOld",
                                        !.item = Lookup(shards, calcHash(c.k))]
      [] OTHER             -> c

\* Flush, line 202: c.shards = newShardMap(); the new shards have new mutexes
FlushTable(t) ==
    /\ CanStart(t)
    /\ shards' = newShardMap
    /\ lock' = [i \in ShardIds |-> Unlocked]
    /\ calls' = [u \in Threads |->
                    IF u = t THEN Started("Flush", <<>>, Nil, 0, "FlushCount")
                    ELSE Discarded(calls[u])]
    /\ ncalls' = ncalls + 1
    /\ UNCHANGED <<now, defaultExpiration, Statistic, ret, jan, tick>>

\* Flush, line 203: c.Statistic.ItemsCount = 0, and return
FlushCount(t) ==
    /\ calls[t].pc = "FlushCount"
    /\ Statistic' = [Statistic EXCEPT !.ItemsCount = 0]
    /\ calls' = [calls EXCEPT ![t] = IdleCall]
    /\ ret' = Result(calls[t], Nil, FALSE, Nil, 0)
    /\ UNCHANGED <<now, defaultExpiration, shards, ncalls, lock, jan, tick>>

\* Set, line 100, on a shard of a discarded table
SetLockOld(t) ==
    /\ calls[t].pc = "SetLockOld"
    /\ calls' = [calls EXCEPT ![t].pc = "SetWriteOld"]
    /\ UNCHANGED <<seqVars, lock, jan, tick>>

\* Set, lines 101-105, on a shard of a discarded table: the item goes into a
\* map that c.shards no longer holds
SetWriteOld(t) ==
    /\ calls[t].pc = "SetWriteOld"
    /\ calls' = [calls EXCEPT ![t] = IdleCall]
    /\ ret' = Result(calls[t], Nil, FALSE, Nil, 0)
    /\ UNCHANGED <<now, defaultExpiration, shards, Statistic, ncalls, lock, jan, tick>>

\* Get, lines 141-146, on a shard of a discarded table
GetReadOld(t) ==
    LET c == calls[t] IN
    /\ c.pc = "GetReadOld"
    /\ IF c.item = <<>> THEN GotResult(t, FALSE, Item(Nil, 0))
       ELSE IF c.item[1].Expiration = 0 THEN GotResult(t, TRUE, c.item[1])
       ELSE /\ calls' = [calls EXCEPT ![t].pc = "GetExpired"]
            /\ UNCHANGED <<Statistic, ret>>
    /\ UNCHANGED <<now, defaultExpiration, shards, ncalls, lock, jan, tick>>

FlushCallerNext(t) ==
    \/ \E k \in ConcKeys, d \in ConcDurations : SetBegin(t, k, ValueOf(t), d)
    \/ SetLock(t)
    \/ SetWrite(t)
    \/ SetLockOld(t)
    \/ SetWriteOld(t)
    \/ \E k \in ConcKeys : GetRLock(t, "Get", k, Nil, 0)
    \/ GetRead(t)
    \/ GetReadOld(t)
    \/ GetExpired(t)
    \/ FlushTable(t)
    \/ FlushCount(t)

FlushNext ==
    \/ \E t \in Threads : FlushCallerNext(t)
    \/ Tick

SpecFlush == Init /\ [][FlushNext]_vars

(* C16: the replacement of the shard table by Flush is safe to observe
   concurrently: an operation that overlaps a Flush works on the old table or
   on the new one as a whole, and a Set(k, v, d) that returns when every Flush
   has returned is visible afterwards: when it returns, its item is stored
   under k in the cache's table. *)
C16_SetAfterFlushVisible ==
    [][\A t \in Threads :
          (/\ calls[t].op = "Set"
           /\ calls[t].pc \in {"SetWrite", "SetWriteOld"}
           /\ calls'[t].pc = "idle"
           /\ \A u \in Threads : calls[u].op # "Flush")
          => Stored(shards', calls[t].k) = {Item(calls[t].x, calls[t].e)}]_vars

(***************************************************************************)
(* SpecTerm: two callers and the janitor, with the wait for the read lock  *)
(* of Get as a step of its own, under the fairness of the Go runtime and   *)
(* of sync.RWMutex: a goroutine that can run does run, and one that waits  *)
(* for a lock which is free again and again gets it.  One caller calls     *)
(* Set, Delete and ItemCount, the other one Get, Add and Replace; there    *)
(* are as many calls as callers, so that the calls can all overlap, with   *)
(* each other and with the sweeps of the janitor, which never end.         *)
(***************************************************************************)
Writer == "t1"
Reader == "t2"

\* Get, lines 136-139, called directly or from Add or Replace
GetBegin(t, op, k, x, d) ==
    /\ CanStart(t)
    /\ calls' = [calls EXCEPT ![t] = Started(op, k, x, d, "GetRLock")]
    /\ ncalls' = ncalls + 1
    /\ UNCHANGED <<now, defaultExpiration, shards, Statistic, ret, lock, jan, tick>>

\* Get, line 140: shard.RLock()
GetLock(t) ==
    /\ calls[t].pc = "GetRLock"
    /\ CanRLock(lock[ShardOf(calls[t].k)])
    /\ lock' = [lock EXCEPT ![ShardOf(calls[t].k)] = RLocked(@, t)]
    /\ calls' = [calls EXCEPT ![t].pc = "GetRead"]
    /\ UNCHANGED <<seqVars, jan, tick>>

\* goroutine t starts a call
TermStart(t) ==
    /\ ncalls < Cardinality(Threads)
    /\ \/ t = Writer /\ \E k \in ConcKeys, d \in ConcDurations :
                            SetBegin(t, k, ValueOf(t), d)
       \/ t = Writer /\ \E k \in ConcKeys : DeleteLookup(t, k)
       \/ t = Writer /\ ItemCountBegin(t)
       \/ t = Reader /\ \E k \in ConcKeys : GetBegin(t, "Get", k, Nil, 0)
       \/ t = Reader /\ \E k \in ConcKeys, d \in ConcDurations :
                            GetBegin(t, "Add", k, ValueOf(t), d)
       \/ t = Reader /\ \E k \in ConcKeys, d \in ConcDurations :
                            GetBegin(t, "Replace", k, ValueOf(t), d)

\* goroutine t takes the next step of its call, other than waiting for a lock
TermStep(t) ==
    \/ SetWrite(t)
    \/ GetRead(t)
    \/ GetExpired(t)
    \/ SetEnter(t)
    \/ DeleteRemove(t)
    \/ CountRead(t)

\* goroutine t gets the lock it waits for
TermLock(t) ==
    \/ SetLock(t)
    \/ GetLock(t)
    \/ CountRLock(t)

TermNext ==
    \/ \E t \in Threads : TermStart(t) \/ TermStep(t) \/ TermLock(t)
    \/ JanitorNext
    \/ ClockTick

TermFairness ==
    /\ WF_vars(ClockTick)
    /\ WF_vars(JanitorNext)
    /\ SF_vars(SweepLock)
    /\ \A t \in Threads : WF_vars(TermStep(t)) /\ SF_vars(TermLock(t))

SpecTerm == ConcInit /\ [][TermNext]_vars /\ TermFairness

\* the shards whose lock goroutine who holds, for reading or for writing
HeldBy(who) == {i \in ShardIds : lock[i].w = who \/ who \in lock[i].r}

(* C17: no goroutine ever holds the locks of two shards at once, and every
   lock taken is released: a goroutine outside a call, and the janitor
   outside a sweep, hold none.  Hence with concurrent callers, the janitor
   and a fair lock every call and every sweep comes to its end: each
   goroutine is outside a call, and the janitor between two sweeps, again and
   again. *)
C17_LocksAndTermination ==
    /\ [](\A who \in Threads \cup {"janitor"} : Cardinality(HeldBy(who)) <= 1)
    /\ [](\A t \in Threads : calls[t].pc = "idle" => HeldBy(t) = {})
    /\ [](~Sweeping => HeldBy("janitor") = {})
    /\ \A t \in Threads : []<>(calls[t].pc = "idle")
    /\ []<>(~Sweeping)

\* a caller waits for the lock of a shard that the janitor's sweep holds, while
\* the other caller is inside a call as well
C17_Witness ==
    \E t \in Threads :
        /\ calls[t].pc \in {"SetLock", "GetRLock", "CountRLock"}
        /\ \E i \in ShardIds : lock[i].w = "janitor" /\
               i = (IF calls[t].pc = "CountRLock" THEN calls[t].i ELSE ShardOf(calls[t].k))
        /\ \A u \in Threads : calls[u].pc # "idle"

=============================================================================
